---- MODULE Spec2Model ----
(***************************************************************************)
(* The traffic-lights example of post-haste: the SequencerAgent state      *)
(* machine (examples/traffic-lights/sequencer.rs), the button that feeds   *)
(* it and the delayed self-addressed InternalMessage ("Advance") timers.   *)
(*                                                                         *)
(* A handler of the agent's run loop is one atomic action: the agent owns  *)
(* its state and handles one message at a time.  Delayed messages that     *)
(* have been sent and not yet received form the bag `pending`; the order   *)
(* in which two pending messages arrive depends on the delay constants     *)
(* and on when each was sent, so any pending message may be the next one   *)
(* received.                                                               *)
(***************************************************************************)
EXTENDS Bags, FiniteSets, Integers, Sequences, TLC

\* ---------------------------------------------------------------- bounds
\* Most delayed InternalMessages in flight at once.
MaxPending == 3
\* The press counter saturates here ("this many or more").
MaxPresses == 2
\* Longest recorded history of handler results.
HistLen == 8
\* Capacity of the LightsAgent's mailbox.
MaxInbox == 3

\* ----------------------------------------------------------------- types
Red == "Red"
RedToGreen == "RedToGreen"
Green == "Green"
GreenToRed == "GreenToRed"
TrafficSequenceState == {Red, RedToGreen, Green, GreenToRed}

Stop == "Stop"
CrossPending == "CrossPending"
Cross == "Cross"
CrossEnding == "CrossEnding"
PedestrianCrossingSequenceState == {Stop, CrossPending, Cross, CrossEnding}

\* Option::None of InternalMessage.pedestrian_light_state
None == "None"

InternalMessage(t, p) == [traffic_light_state |-> t, pedestrian_light_state |-> p]

SetTrafficLightState(t) == [kind |-> "SetTrafficLightState", value |-> t]
SetPedestrianLightState(p) == [kind |-> "SetPedestrianLightState", value |-> p]
SetButtonLightState(b) == [kind |-> "SetButtonLightState", value |-> b]
Display == [kind |-> "Display", value |-> None]

\* Why the agent's task ended, if it did.
Running == "running"
PanicButtonRedStop == "panic: ButtonPress in Red/Stop"
PanicScheduleRedStop == "panic: schedule in Red/Stop"
PanicScheduleGreenCross == "panic: schedule in Green/Cross*"

VARIABLES
    traffic_light_state,     \* SequencerAgent.traffic_light_state
    pedestrian_light_state,  \* SequencerAgent.pedestrian_light_state
    pending,                 \* bag of delayed InternalMessages sent, not yet received
    begun,                   \* Begin has been handled
    aborted,                 \* Running, or the panic that ended the agent
    button_light,            \* value of the last SetButtonLightState sent
    emitted,                 \* LightsMessages sent by the last handler, in order
    scheduled,               \* InternalMessages sent by the last handler, in order
    last,                    \* the last message handled and the state it found
    presses,                 \* ButtonPress messages handled (saturating)
    hist,                    \* results of the handlers so far, while presses <= 1
    lights,                  \* the LightsAgent's fields
    lights_inbox             \* LightsMessages sent to the LightsAgent, not yet handled

\* The sequencer and what is recorded about it.
sequencer_vars ==
    <<traffic_light_state, pedestrian_light_state, pending, begun, aborted,
      button_light, emitted, scheduled, last, presses, hist>>

\* The LightsAgent and its mailbox.
lights_vars == <<lights, lights_inbox>>

vars == <<sequencer_vars, lights_vars>>

\* ---------------------------------------------------------- light shapes
\* Mutant: Green leaves the amber light on.
TrafficLightsFrom_green_with_amber(value) ==
    CASE value = Red -> [red |-> TRUE, amber |-> FALSE, green |-> FALSE]
      [] value = RedToGreen -> [red |-> TRUE, amber |-> TRUE, green |-> FALSE]
      [] value = Green -> [red |-> FALSE, amber |-> TRUE, green |-> TRUE]
      [] value = GreenToRed -> [red |-> FALSE, amber |-> TRUE, green |-> FALSE]

\* impl From<TrafficSequenceState> for TrafficLights
TrafficLightsFrom(value) ==
    CASE value = Red -> [red |-> TRUE, amber |-> FALSE, green |-> FALSE]
      [] value = RedToGreen -> [red |-> TRUE, amber |-> TRUE, green |-> FALSE]
      [] value = Green -> [red |-> FALSE, amber |-> FALSE, green |-> TRUE]
      [] value = GreenToRed -> [red |-> FALSE, amber |-> TRUE, green |-> FALSE]

\* impl From<PedestrianCrossingSequenceState> for PedestrianLights
PedestrianLightsFrom(value) ==
    CASE value = Cross -> [stop |-> FALSE, cross |-> TRUE]
      [] value \in {Stop, CrossEnding, CrossPending} -> [stop |-> TRUE, cross |-> FALSE]

TrafficLightsDefault == TrafficLightsFrom(Red)

PedestrianLightsDefault == PedestrianLightsFrom(Stop)

\* LightsAgent::create
lights_create ==
    [traffic_light_state |-> TrafficLightsDefault,
     pedestrian_light_state |-> PedestrianLightsDefault,
     cross_pending |-> FALSE]

\* LightsAgent::message_handler: the fields after lights_message.
message_handler(self, lights_message) ==
    CASE lights_message.kind = "SetTrafficLightState" ->
            [self EXCEPT !.traffic_light_state = TrafficLightsFrom(lights_message.value)]
      [] lights_message.kind = "SetPedestrianLightState" ->
            [self EXCEPT !.pedestrian_light_state =
                            PedestrianLightsFrom(lights_message.value)]
      [] lights_message.kind = "SetButtonLightState" ->
            [self EXCEPT !.cross_pending = lights_message.value]
      [] lights_message.kind = "Display" -> self

\* ------------------------------------------------------------ scheduling
\* What a scheduling step does: delayed messages to self, messages to the
\* lights, and whether it panics.
Step(sched, out, panic) == [sched |-> sched, out |-> out, panic |-> panic]

\* Mutant: the CrossEnding arm forgets to move the traffic phase on.
calculate_red_state_next_step_stays_red(p) ==
    CASE p = Stop -> Step(<<>>, <<>>, PanicScheduleRedStop)
      [] p = CrossPending -> Step(<<InternalMessage(Red, Cross)>>, <<>>, Running)
      [] p = Cross -> Step(<<InternalMessage(Red, CrossEnding)>>,
                           <<SetButtonLightState(FALSE)>>, Running)
      [] p = CrossEnding -> Step(<<InternalMessage(Red, Stop)>>, <<>>, Running)

\* Mutant: the Cross arm leaves the button light on.
calculate_red_state_next_step_light_stays_on(p) ==
    CASE p = Stop -> Step(<<>>, <<>>, PanicScheduleRedStop)
      [] p = CrossPending -> Step(<<InternalMessage(Red, Cross)>>, <<>>, Running)
      [] p = Cross -> Step(<<InternalMessage(Red, CrossEnding)>>, <<>>, Running)
      [] p = CrossEnding -> Step(<<InternalMessage(RedToGreen, Stop)>>, <<>>, Running)

calculate_red_state_next_step(p) ==
    CASE p = Stop -> Step(<<>>, <<>>, PanicScheduleRedStop)
      [] p = CrossPending -> Step(<<InternalMessage(Red, Cross)>>, <<>>, Running)
      [] p = Cross -> Step(<<InternalMessage(Red, CrossEnding)>>,
                           <<SetButtonLightState(FALSE)>>, Running)
      [] p = CrossEnding -> Step(<<InternalMessage(RedToGreen, Stop)>>, <<>>, Running)

\* Mutant: Green/Stop starts the wind-down without a press.
calculate_green_state_next_step_always_cycles(p) ==
    CASE p \in {Stop, CrossPending} ->
            Step(<<InternalMessage(GreenToRed, CrossPending)>>, <<>>, Running)
      [] p \in {Cross, CrossEnding} -> Step(<<>>, <<>>, PanicScheduleGreenCross)

calculate_green_state_next_step(p) ==
    CASE p = Stop -> Step(<<>>, <<>>, Running)
      [] p = CrossPending ->
            Step(<<InternalMessage(GreenToRed, CrossPending)>>, <<>>, Running)
      [] p \in {Cross, CrossEnding} -> Step(<<>>, <<>>, PanicScheduleGreenCross)

\* Mutant: RedToGreen schedules nothing.
schedule_next_state_amber_unscheduled(t, p) ==
    CASE t = Red -> calculate_red_state_next_step(p)
      [] t = RedToGreen -> Step(<<>>, <<>>, Running)
      [] t = Green -> calculate_green_state_next_step(p)
      [] t = GreenToRed -> Step(<<InternalMessage(Red, CrossPending)>>, <<>>, Running)

\* Mutant: GreenToRed goes straight to the crossing.
schedule_next_state_skips_pending(t, p) ==
    CASE t = Red -> calculate_red_state_next_step(p)
      [] t = RedToGreen -> Step(<<InternalMessage(Green, None)>>, <<>>, Running)
      [] t = Green -> calculate_green_state_next_step(p)
      [] t = GreenToRed -> Step(<<InternalMessage(Red, Cross)>>, <<>>, Running)

schedule_next_state(t, p) ==
    CASE t = Red -> calculate_red_state_next_step(p)
      [] t = RedToGreen -> Step(<<InternalMessage(Green, None)>>, <<>>, Running)
      [] t = Green -> calculate_green_state_next_step(p)
      [] t = GreenToRed -> Step(<<InternalMessage(Red, CrossPending)>>, <<>>, Running)

\* -------------------------------------------------------------- handlers
\* The result of a handler run in state (t, p): the new state, the messages
\* it sent and the panic it ended in, if any.
Result(t, p, out, sched, panic) ==
    [t |-> t, p |-> p, out |-> out, sched |-> sched, panic |-> panic]

\* Mutant: the delayed pedestrian state is always adopted.
button_pressed_before_red_to_green_ignored(t, p) == FALSE

\* Mutant: a latched press shields the pedestrian state in every phase.
button_pressed_before_red_to_green_any_phase(t, p) == p = CrossPending

\* The delayed pedestrian state is dropped when a press has been latched
\* before the RedToGreen message arrives.
button_pressed_before_red_to_green(t, p) ==
    t = RedToGreen /\ p = CrossPending

\* Mutant: the adopted pedestrian state is not sent to the lights.
handle_internal_message_silent_pedestrian(t, p, m) ==
    LET t1 == m.traffic_light_state
        adopt == /\ m.pedestrian_light_state # None
                 /\ ~button_pressed_before_red_to_green(t1, p)
        p1 == IF adopt THEN m.pedestrian_light_state ELSE p
        s == schedule_next_state(t1, p1)
    IN Result(t1, p1, <<SetTrafficLightState(t1)>> \o s.out, s.sched, s.panic)

handle_internal_message(t, p, m) ==
    LET t1 == m.traffic_light_state
        adopt == /\ m.pedestrian_light_state # None
                 /\ ~button_pressed_before_red_to_green(t1, p)
        p1 == IF adopt THEN m.pedestrian_light_state ELSE p
        s == schedule_next_state(t1, p1)
    IN Result(t1, p1,
              <<SetTrafficLightState(t1)>>
                  \o (IF adopt THEN <<SetPedestrianLightState(p1)>> ELSE <<>>)
                  \o s.out,
              s.sched, s.panic)

\* Mutant: a press during Cross latches a new request.
handle_button_press_in_red_state_relatch(t, p) ==
    CASE p = Stop -> Result(t, p, <<>>, <<>>, PanicButtonRedStop)
      [] p = CrossPending -> Result(t, p, <<>>, <<>>, Running)
      [] p \in {Cross, CrossEnding} ->
            Result(t, CrossPending, <<SetButtonLightState(TRUE)>>, <<>>, Running)

\* Mutant: a press during CrossEnding schedules a new crossing at once.
handle_button_press_in_red_state_restarts(t, p) ==
    CASE p = Stop -> Result(t, p, <<>>, <<>>, PanicButtonRedStop)
      [] p \in {CrossPending, Cross} -> Result(t, p, <<>>, <<>>, Running)
      [] p = CrossEnding ->
            Result(t, CrossPending, <<SetButtonLightState(TRUE)>>,
                   <<InternalMessage(Red, Cross)>>, Running)

handle_button_press_in_red_state(t, p) ==
    CASE p = Stop -> Result(t, p, <<>>, <<>>, PanicButtonRedStop)
      [] p \in {CrossPending, Cross} -> Result(t, p, <<>>, <<>>, Running)
      [] p = CrossEnding ->
            Result(t, CrossPending, <<SetButtonLightState(TRUE)>>, <<>>, Running)

\* Mutant: a press during an amber phase schedules the next step as well.
handle_button_press_amber_schedules(t, p) ==
    CASE t = Red -> handle_button_press_in_red_state(t, p)
      [] t \in {RedToGreen, GreenToRed, Green} ->
            LET s == schedule_next_state(t, CrossPending)
            IN Result(t, CrossPending,
                      <<SetButtonLightState(TRUE)>> \o s.out, s.sched, s.panic)

\* Mutant: a press in Green only latches the request.
handle_button_press_green_unscheduled(t, p) ==
    CASE t = Red -> handle_button_press_in_red_state(t, p)
      [] t \in {RedToGreen, GreenToRed, Green} ->
            Result(t, CrossPending, <<SetButtonLightState(TRUE)>>, <<>>, Running)

handle_button_press(t, p) ==
    CASE t = Red -> handle_button_press_in_red_state(t, p)
      [] t \in {RedToGreen, GreenToRed} ->
            Result(t, CrossPending, <<SetButtonLightState(TRUE)>>, <<>>, Running)
      [] t = Green ->
            LET s == schedule_next_state(t, CrossPending)
            IN Result(t, CrossPending,
                      <<SetButtonLightState(TRUE)>> \o s.out, s.sched, s.panic)

\* Mutant: Begin always reports the button light as off.
begin_light_off(t, p) ==
    LET s == schedule_next_state(t, p)
    IN Result(t, p,
              <<SetButtonLightState(FALSE),
                SetTrafficLightState(t),
                SetPedestrianLightState(p)>> \o s.out,
              s.sched, s.panic)

\* Mutant: Begin schedules the step of the initial state, whatever was
\* pressed before.
begin_ignores_press(t, p) ==
    LET s == schedule_next_state(t, CrossEnding)
    IN Result(t, p,
              <<SetButtonLightState(p = CrossPending),
                SetTrafficLightState(t),
                SetPedestrianLightState(p)>> \o s.out,
              s.sched, s.panic)

begin(t, p) ==
    LET s == schedule_next_state(t, p)
    IN Result(t, p,
              <<SetButtonLightState(p = CrossPending),
                SetTrafficLightState(t),
                SetPedestrianLightState(p)>> \o s.out,
              s.sched, s.panic)

\* ------------------------------------------------------------ the agent
RECURSIVE SeqToBag(_)
SeqToBag(s) ==
    IF s = <<>> THEN EmptyBag ELSE SetToBag({Head(s)}) (+) SeqToBag(Tail(s))

\* The value of the last SetButtonLightState in out, or b when there is none.
RECURSIVE LastButtonLight(_, _)
LastButtonLight(out, b) ==
    IF out = <<>> THEN b
    ELSE LastButtonLight(Tail(out),
                         IF Head(out).kind = "SetButtonLightState"
                         THEN Head(out).value ELSE b)

Snapshot(r, b, pend) ==
    [traffic |-> r.t, pedestrian |-> r.p, button |-> b, pending |-> pend]

\* One turn of the run loop: the handler ran in the current state with
\* result r, after the message was taken from pend.
Handle(op, msg, r, pend, isPress) ==
    LET b == LastButtonLight(r.out, button_light)
        pend1 == pend (+) SeqToBag(r.sched)
        n == IF isPress /\ presses < MaxPresses THEN presses + 1 ELSE presses
    IN /\ traffic_light_state' = r.t
       /\ pedestrian_light_state' = r.p
       /\ pending' = pend1
       /\ aborted' = r.panic
       /\ button_light' = b
       /\ emitted' = r.out
       /\ scheduled' = r.sched
       /\ last' = [op |-> op, msg |-> msg,
                   traffic |-> traffic_light_state,
                   pedestrian |-> pedestrian_light_state]
       /\ presses' = n
       /\ hist' = IF n > 1 THEN <<>>
                  ELSE IF Len(hist) < HistLen
                       THEN Append(hist, Snapshot(r, b, pend1))
                       ELSE hist

NoMessage == InternalMessage(None, None)

create ==
    [traffic_light_state |-> Red, pedestrian_light_state |-> CrossEnding]

Init ==
    /\ traffic_light_state = create.traffic_light_state
    /\ pedestrian_light_state = create.pedestrian_light_state
    /\ pending = EmptyBag
    /\ begun = FALSE
    /\ aborted = Running
    /\ button_light = FALSE
    /\ emitted = <<>>
    /\ scheduled = <<>>
    /\ last = [op |-> "create", msg |-> NoMessage,
               traffic |-> Red, pedestrian |-> CrossEnding]
    /\ presses = 0
    /\ hist = <<>>
    /\ lights = lights_create
    /\ lights_inbox = <<>>

\* main sends Begin once, after the agents are registered.
Begin ==
    /\ aborted = Running
    /\ ~begun
    /\ begun' = TRUE
    /\ Handle("Begin", NoMessage,
              begin(traffic_light_state, pedestrian_light_state), pending, FALSE)

\* The button agent sends a ButtonPress for every line read from stdin.
ButtonPress ==
    /\ aborted = Running
    /\ \/ traffic_light_state # Green
       \/ BagCardinality(pending) < MaxPending
    /\ UNCHANGED begun
    /\ Handle("ButtonPress", NoMessage,
              handle_button_press(traffic_light_state, pedestrian_light_state),
              pending, TRUE)

\* The delayed messages the postmaster may hand over next: each is delivered
\* no earlier than its own delay, so which of several comes first is open.
Deliverable == BagToSet(pending)

\* A delayed InternalMessage arrives.
Advance(m) ==
    /\ aborted = Running
    /\ m \in Deliverable
    /\ UNCHANGED begun
    /\ Handle("InternalMessage", m,
              handle_internal_message(traffic_light_state, pedestrian_light_state, m),
              pending (-) SetToBag({m}), FALSE)

Messages ==
    {InternalMessage(t, p) : t \in TrafficSequenceState,
                             p \in PedestrianCrossingSequenceState \cup {None}}

Deliver == \E m \in Messages : Advance(m)

\* The sequencer alone: what it sends to the lights is recorded in `emitted`
\* and the LightsAgent is left out.
Next ==
    \/ Begin /\ UNCHANGED lights_vars
    \/ ButtonPress /\ UNCHANGED lights_vars
    \/ Deliver /\ UNCHANGED lights_vars

Spec == Init /\ [][Next]_vars

\* Every delayed message is delivered and main does send Begin; nothing
\* obliges anybody to press the button.
FairSpec ==
    /\ Spec
    /\ WF_vars(Begin /\ UNCHANGED lights_vars)
    /\ \A m \in Messages : WF_vars(Advance(m) /\ UNCHANGED lights_vars)

\* The handler's LightsMessages enter the LightsAgent's mailbox in the order
\* sent; a full mailbox holds the sender back.
SendToLights ==
    /\ Len(lights_inbox) + Len(emitted') <= MaxInbox
    /\ lights_inbox' = lights_inbox \o emitted'
    /\ UNCHANGED lights

\* The button agent asks the lights to redraw after every press it reports.
ButtonDisplay ==
    /\ Len(lights_inbox) < MaxInbox
    /\ lights_inbox' = Append(lights_inbox, Display)
    /\ UNCHANGED lights
    /\ UNCHANGED sequencer_vars

\* One turn of LightsAgent::run.
LightsReceive ==
    /\ lights_inbox # <<>>
    /\ lights' = message_handler(lights, Head(lights_inbox))
    /\ lights_inbox' = Tail(lights_inbox)
    /\ UNCHANGED sequencer_vars

\* The sequencer together with the LightsAgent.
LightsNext ==
    \/ Begin /\ SendToLights
    \/ ButtonPress /\ SendToLights
    \/ Deliver /\ SendToLights
    \/ ButtonDisplay
    \/ LightsReceive

LightsSpec == Init /\ [][LightsNext]_vars

TypeOK ==
    /\ traffic_light_state \in TrafficSequenceState
    /\ pedestrian_light_state \in PedestrianCrossingSequenceState
    /\ IsABag(pending)
    /\ BagToSet(pending) \subseteq Messages
    /\ begun \in BOOLEAN
    /\ button_light \in BOOLEAN
    /\ presses \in 0..MaxPresses

\* ------------------------------------------------------------ properties
IsPrefix(s, t) == Len(s) <= Len(t) /\ SubSeq(t, 1, Len(s)) = s

Phases(h) == [i \in 1..Len(h) |-> <<h[i].traffic, h[i].pedestrian, h[i].button>>]

Only(m) == SetToBag({m})

\* C1: after Begin, traffic phase Green implies the pedestrian phase is
\* Stop or CrossPending, whatever the presses and the delivery order.
C1_GreenImpliesStopOrPending ==
    (begun /\ traffic_light_state = Green)
        => pedestrian_light_state \in {Stop, CrossPending}

\* C2: the pedestrian phase is Cross or CrossEnding only while the traffic
\* phase is Red.
C2_CrossOnlyWhileRed ==
    pedestrian_light_state \in {Cross, CrossEnding} => traffic_light_state = Red

\* C3: after Begin, Red together with Stop never occurs, and neither Red+Stop
\* abort branch (ButtonPress handler, scheduling step) is ever taken.
C3_NeverRedStop ==
    begun => /\ ~(traffic_light_state = Red /\ pedestrian_light_state = Stop)
             /\ aborted \notin {PanicButtonRedStop, PanicScheduleRedStop}

\* C3 witness: after Begin and a press the controller has come back to Red
\* from GreenToRed.
C3_Witness ==
    /\ begun
    /\ presses > 0
    /\ traffic_light_state = Red
    /\ last.op = "InternalMessage"
    /\ last.traffic = GreenToRed

\* C4: a latched press is served: pedestrian phase CrossPending leads to
\* (Red, Cross) when every scheduled message is delivered.
C4_PressNeverLost ==
    (pedestrian_light_state = CrossPending)
        ~> (traffic_light_state = Red /\ pedestrian_light_state = Cross)

\* C5: when the previous handler was a ButtonPress found in (Red, CrossEnding)
\* and the armed InternalMessage(RedToGreen, Stop) is handled next, the state
\* afterwards is (RedToGreen, CrossPending).
C5_RaceReconciliation ==
    [][(/\ last.op = "ButtonPress"
        /\ last.traffic = Red
        /\ last.pedestrian = CrossEnding
        /\ BagIn(InternalMessage(RedToGreen, Stop), pending)
        /\ last'.op = "InternalMessage"
        /\ last'.msg = InternalMessage(RedToGreen, Stop))
       => (/\ traffic_light_state' = RedToGreen
           /\ pedestrian_light_state' = CrossPending)]_vars

\* C5 witness: Begin, then the press in (Red, CrossEnding), then the stale
\* message, which left (RedToGreen, CrossPending).
C5_Witness ==
    /\ Len(hist) = 3
    /\ Phases(hist) = << <<Red, CrossEnding, FALSE>>,
                         <<Red, CrossPending, TRUE>>,
                         <<RedToGreen, CrossPending, TRUE>> >>
    /\ last.msg = InternalMessage(RedToGreen, Stop)

\* C6: at most one InternalMessage is pending in every reachable state.
C6_AtMostOnePending == BagCardinality(pending) <= 1

\* C7: while the traffic phase is RedToGreen or GreenToRed the message that
\* ends the phase is pending, and a ButtonPress removes no pending message.
C7_AmberHasPending ==
    /\ [](/\ traffic_light_state = RedToGreen
             => BagIn(InternalMessage(Green, None), pending)
          /\ traffic_light_state = GreenToRed
             => BagIn(InternalMessage(Red, CrossPending), pending))
    /\ [][last'.op = "ButtonPress" => pending \sqsubseteq pending']_vars

\* C7 witness: a press was handled during GreenToRed and the message to Red
\* is still pending.
C7_Witness ==
    /\ traffic_light_state = GreenToRed
    /\ last.op = "ButtonPress"
    /\ last.traffic = GreenToRed
    /\ BagIn(InternalMessage(Red, CrossPending), pending)

\* C8: a ButtonPress handled in (Red, CrossPending) or (Red, Cross) changes
\* nothing: phases, button light and pending messages keep their values and
\* nothing is sent.
C8_PressIdempotentInRed ==
    [][(/\ last'.op = "ButtonPress"
        /\ traffic_light_state = Red
        /\ pedestrian_light_state \in {CrossPending, Cross})
       => (/\ traffic_light_state' = traffic_light_state
           /\ pedestrian_light_state' = pedestrian_light_state
           /\ button_light' = button_light
           /\ pending' = pending
           /\ aborted' = aborted
           /\ emitted' = <<>>
           /\ scheduled' = <<>>)]_vars

\* C8 witness: a press was handled in (Red, Cross).
C8_Witness ==
    /\ last.op = "ButtonPress"
    /\ last.traffic = Red
    /\ last.pedestrian = Cross
    /\ pedestrian_light_state = Cross
    /\ BagIn(InternalMessage(Red, CrossEnding), pending)

QuietRun ==
    << [traffic |-> Red, pedestrian |-> CrossEnding, button |-> FALSE,
        pending |-> Only(InternalMessage(RedToGreen, Stop))],
       [traffic |-> RedToGreen, pedestrian |-> Stop, button |-> FALSE,
        pending |-> Only(InternalMessage(Green, None))],
       [traffic |-> Green, pedestrian |-> Stop, button |-> FALSE,
        pending |-> EmptyBag] >>

Current ==
    [traffic |-> traffic_light_state, pedestrian |-> pedestrian_light_state,
     button |-> button_light, pending |-> pending]

\* C9: with Begin and no ButtonPress the handlers produce exactly
\* (Red, CrossEnding), (RedToGreen, Stop), (Green, Stop); Green/Stop is
\* reached, and there nothing is pending and nothing was scheduled.
C9_QuietSequence ==
    /\ []((begun /\ presses = 0)
            => /\ hist # <<>>
               /\ IsPrefix(hist, QuietRun)
               /\ hist[Len(hist)] = Current
               /\ traffic_light_state = Green
                    => (pending = EmptyBag /\ scheduled = <<>>))
    /\ <>(presses > 0 \/ (hist = QuietRun /\ ~ENABLED Deliver))

\* C9 witness: the quiet run has ended in (Green, Stop) with nothing pending.
C9_Witness ==
    /\ presses = 0
    /\ hist = QuietRun
    /\ traffic_light_state = Green
    /\ pending = EmptyBag

\* The run of one press made in (Green, Stop, off), as the claim has it.
ClaimedCycle ==
    << <<Green, CrossPending, TRUE>>,
       <<GreenToRed, CrossPending, TRUE>>,
       <<Red, CrossPending, TRUE>>,
       <<Red, Cross, TRUE>>,
       <<Red, CrossEnding, FALSE>> >>

\* The same run with the button light off from the moment Cross is entered.
PressCycle ==
    << <<Green, CrossPending, TRUE>>,
       <<GreenToRed, CrossPending, TRUE>>,
       <<Red, CrossPending, TRUE>>,
       <<Red, Cross, FALSE>>,
       <<Red, CrossEnding, FALSE>> >>

PressCyclePending ==
    << Only(InternalMessage(GreenToRed, CrossPending)),
       Only(InternalMessage(Red, CrossPending)),
       Only(InternalMessage(Red, Cross)),
       Only(InternalMessage(Red, CrossEnding)),
       Only(InternalMessage(RedToGreen, Stop)) >>

\* The only press so far was made in (Green, Stop, off) at the end of the
\* quiet run.
OnePressFromGreen ==
    /\ presses = 1
    /\ Len(hist) > Len(QuietRun)
    /\ SubSeq(hist, 1, Len(QuietRun)) = QuietRun

\* The handler results from the press on, as far as the cycle goes.
AfterPress ==
    LET end == Len(QuietRun) + Len(PressCycle)
    IN SubSeq(hist, Len(QuietRun) + 1, IF Len(hist) < end THEN Len(hist) ELSE end)

\* C10 as claimed: the states after the single press are (Green,
\* CrossPending, on), (GreenToRed, CrossPending, on), (Red, CrossPending, on),
\* (Red, Cross, on), (Red, CrossEnding, off), in that order.
C10_ClaimedCycle ==
    OnePressFromGreen => IsPrefix(Phases(AfterPress), ClaimedCycle)

\* C10 amended: the same order of states, with the button light already off
\* in (Red, Cross); one message is pending after each handler, the press
\* having scheduled InternalMessage(GreenToRed, CrossPending).
C10_PressCycle ==
    OnePressFromGreen
        => /\ IsPrefix(Phases(AfterPress), PressCycle)
           /\ \A i \in 1..Len(AfterPress) :
                 AfterPress[i].pending = PressCyclePending[i]

\* C10 witness: the whole cycle has run.
C10_Witness ==
    /\ OnePressFromGreen
    /\ Phases(AfterPress) = PressCycle
    /\ last.msg = InternalMessage(Red, CrossEnding)
    /\ button_light = FALSE

\* C11: between handlers the button light is on exactly when the pedestrian
\* phase is CrossPending, and off in Stop, Cross and CrossEnding.
C11_ButtonLightIffPending ==
    button_light = (pedestrian_light_state = CrossPending)

\* C12: an aborted controller has sent no light update and scheduled nothing
\* in the handler that aborted, and handles no further message.
C12_AbortIsSilent ==
    aborted # Running
        => /\ emitted = <<>>
           /\ scheduled = <<>>
           /\ ~ENABLED (Begin \/ ButtonPress \/ Deliver)

\* C13: a ButtonPress handled in RedToGreen or GreenToRed sets CrossPending
\* and the button light, keeps the traffic phase and the pending messages and
\* schedules nothing.
C13_PressInAmber ==
    [][(/\ last'.op = "ButtonPress"
        /\ traffic_light_state \in {RedToGreen, GreenToRed})
       => (/\ pedestrian_light_state' = CrossPending
           /\ button_light' = TRUE
           /\ emitted' = <<SetButtonLightState(TRUE)>>
           /\ traffic_light_state' = traffic_light_state
           /\ pending' = pending
           /\ scheduled' = <<>>)]_vars

\* C13 witness: a press was handled in RedToGreen while the phase was Stop.
C13_Witness ==
    /\ last.op = "ButtonPress"
    /\ last.traffic = RedToGreen
    /\ last.pedestrian = Stop
    /\ pedestrian_light_state = CrossPending
    /\ BagIn(InternalMessage(Green, None), pending)

\* What a ButtonPress handled in Green does.
PressInGreenEffect ==
    /\ traffic_light_state' = Green
    /\ pedestrian_light_state' = CrossPending
    /\ button_light' = TRUE
    /\ scheduled' = <<InternalMessage(GreenToRed, CrossPending)>>
    /\ pending' = pending (+) Only(InternalMessage(GreenToRed, CrossPending))

C15_AdvanceAdopts ==
    [][last'.op = "InternalMessage"
       => LET t == last'.msg.traffic_light_state
              p == last'.msg.pedestrian_light_state
              kept == \/ p = None
                      \/ (t = RedToGreen /\ pedestrian_light_state = CrossPending)
          IN /\ traffic_light_state' = t
             /\ pedestrian_light_state' = IF kept THEN pedestrian_light_state ELSE p
             /\ (p # None /\ kept) => p = Stop]_vars

\* C15 witness: InternalMessage(RedToGreen, Stop) found CrossPending after
\* two presses and Stop was discarded.
C15_Witness ==
    /\ last.op = "InternalMessage"
    /\ last.msg = InternalMessage(RedToGreen, Stop)
    /\ last.pedestrian = CrossPending
    /\ pedestrian_light_state = CrossPending
    /\ traffic_light_state = RedToGreen
    /\ presses = 2

\* The scheduling table of the specification.
TableRow(t, p) ==
    CASE t = Red /\ p = CrossPending -> <<InternalMessage(Red, Cross)>>
      [] t = Red /\ p = Cross -> <<InternalMessage(Red, CrossEnding)>>
      [] t = Red /\ p = CrossEnding -> <<InternalMessage(RedToGreen, Stop)>>
      [] t = RedToGreen -> <<InternalMessage(Green, None)>>
      [] t = Green /\ p = Stop -> <<>>
      [] t = Green /\ p = CrossPending -> <<InternalMessage(GreenToRed, CrossPending)>>
      [] t = GreenToRed -> <<InternalMessage(Red, CrossPending)>>
      [] OTHER -> <<"not in the table">>

\* C16: after Begin and after every InternalMessage handler that did not
\* abort, the messages scheduled are the row of the table for the adopted
\* state (one message, none for Green/Stop), and the button light is
\* switched off by that step exactly in (Red, Cross).
C16_ScheduleFollowsTable ==
    (last.op \in {"Begin", "InternalMessage"} /\ aborted = Running)
        => /\ scheduled = TableRow(traffic_light_state, pedestrian_light_state)
           /\ Len(scheduled) =
                 IF traffic_light_state = Green /\ pedestrian_light_state = Stop
                 THEN 0 ELSE 1
           /\ (emitted # <<>> /\ emitted[Len(emitted)] = SetButtonLightState(FALSE))
                 <=> (traffic_light_state = Red /\ pedestrian_light_state = Cross)

\* C16 witness: the handler that adopted (Red, Cross) scheduled
\* InternalMessage(Red, CrossEnding) and switched the button light off.
C16_Witness ==
    /\ last.op = "InternalMessage"
    /\ traffic_light_state = Red
    /\ pedestrian_light_state = Cross
    /\ scheduled = <<InternalMessage(Red, CrossEnding)>>
    /\ emitted = <<SetTrafficLightState(Red), SetPedestrianLightState(Cross),
                   SetButtonLightState(FALSE)>>

\* C17: Begin keeps both phases, sends the button light, the traffic phase
\* and the pedestrian phase as they are, in that order, and schedules the
\* step of the current phase; from (Red, CrossEnding, off) exactly
\* InternalMessage(RedToGreen, Stop) is pending afterwards.
C17_BeginKeepsPhases ==
    [][last'.op = "Begin"
       => /\ traffic_light_state' = traffic_light_state
          /\ pedestrian_light_state' = pedestrian_light_state
          /\ emitted' = <<SetButtonLightState(button_light),
                          SetTrafficLightState(traffic_light_state),
                          SetPedestrianLightState(pedestrian_light_state)>>
          /\ scheduled' = TableRow(traffic_light_state, pedestrian_light_state)
          /\ pending' = pending (+) SeqToBag(scheduled')
          /\ (/\ traffic_light_state = Red
              /\ pedestrian_light_state = CrossEnding
              /\ ~button_light)
                => pending' = Only(InternalMessage(RedToGreen, Stop))]_vars

\* C17 witness: Begin was handled after a press and sent the button light on.
C17_Witness ==
    /\ last.op = "Begin"
    /\ last.pedestrian = CrossPending
    /\ emitted[1] = SetButtonLightState(TRUE)
    /\ pending = Only(InternalMessage(Red, Cross))

\* The traffic phase that follows t in the cycle.
NextInCycle(t) ==
    CASE t = Red -> RedToGreen
      [] t = RedToGreen -> Green
      [] t = Green -> GreenToRed
      [] t = GreenToRed -> Red

\* C19: a handler leaves the traffic phase as it is or moves it to the next
\* phase of the cycle Red, RedToGreen, Green, GreenToRed.
C19_TrafficFollowsCycle ==
    [][traffic_light_state' \in
          {traffic_light_state, NextInCycle(traffic_light_state)}]_vars

\* C20: the traffic phase becomes Green again and again when every pending
\* message is delivered, whatever the presses; a press handled in Red
\* schedules nothing, starts no crossing and leaves the traffic phase and
\* the pending messages.
C20_TrafficNotStarved ==
    /\ []<>(traffic_light_state = Green)
    /\ [][(last'.op = "ButtonPress" /\ traffic_light_state = Red)
          => (/\ traffic_light_state' = Red
              /\ pedestrian_light_state' = Cross => pedestrian_light_state = Cross
              /\ scheduled' = <<>>
              /\ pending' = pending)]_vars

\* C20 witness: a press was handled in (Red, CrossEnding) and the next two
\* messages led to Green.
C20_Witness ==
    /\ Len(hist) = 4
    /\ Phases(hist) = << <<Red, CrossEnding, FALSE>>,
                         <<Red, CrossPending, TRUE>>,
                         <<RedToGreen, CrossPending, TRUE>>,
                         <<Green, CrossPending, TRUE>> >>
    /\ traffic_light_state = Green

\* The lamps lit in a TrafficLights or PedestrianLights value.
Lit(l) == {k \in DOMAIN l : l[k]}

\* C18: the LightsAgent lights {red} for Red, {red, amber} for RedToGreen,
\* {green} for Green and {amber} for GreenToRed, and {cross} for Cross and
\* {stop} for every other pedestrian phase; so green is never lit with red
\* or amber, and exactly one of stop and cross is lit.
C18_LightProjection ==
    /\ [](/\ lights.traffic_light_state.green
               => (/\ ~lights.traffic_light_state.red
                   /\ ~lights.traffic_light_state.amber)
          /\ lights.pedestrian_light_state.stop
               # lights.pedestrian_light_state.cross)
    /\ [][(lights_inbox # <<>> /\ lights_inbox' = Tail(lights_inbox))
          => LET m == Head(lights_inbox)
             IN /\ m.kind = "SetTrafficLightState"
                     => Lit(lights'.traffic_light_state) =
                           CASE m.value = Red -> {"red"}
                             [] m.value = RedToGreen -> {"red", "amber"}
                             [] m.value = Green -> {"green"}
                             [] m.value = GreenToRed -> {"amber"}
                /\ m.kind = "SetPedestrianLightState"
                     => Lit(lights'.pedestrian_light_state) =
                           IF m.value = Cross THEN {"cross"} ELSE {"stop"}]_vars

\* C18 witness: the LightsAgent has handled everything sent and shows green
\* alone, with stop for the pedestrians.
C18_Witness ==
    /\ lights_inbox = <<>>
    /\ traffic_light_state = Green
    /\ Lit(lights.traffic_light_state) = {"green"}
    /\ Lit(lights.pedestrian_light_state) = {"stop"}

\* C21: once Begin has been handled and the LightsAgent has handled every
\* message sent to it, its traffic lights and pedestrian lights are the
\* projection of the sequencer's traffic and pedestrian phases.
C21_LightsFollowSequencer ==
    (begun /\ lights_inbox = <<>>)
        => /\ lights.traffic_light_state = TrafficLightsFrom(traffic_light_state)
           /\ lights.pedestrian_light_state =
                 PedestrianLightsFrom(pedestrian_light_state)

\* C21 witness: the reconciliation branch kept CrossPending on entering
\* RedToGreen without sending a pedestrian state, and the LightsAgent has
\* handled everything sent.
C21_Witness ==
    /\ begun
    /\ lights_inbox = <<>>
    /\ last.op = "InternalMessage"
    /\ last.msg = InternalMessage(RedToGreen, Stop)
    /\ last.pedestrian = CrossPending
    /\ emitted = <<SetTrafficLightState(RedToGreen)>>
    /\ Lit(lights.traffic_light_state) = {"red", "amber"}
    /\ lights.cross_pending

\* C22: a ButtonPress handled before Begin leaves (Red, CrossPending) with
\* nothing pending; Begin then sends the button light on and leaves exactly
\* InternalMessage(Red, Cross) pending; and once Begin and the first
\* ButtonPress have both been handled, in either order, exactly one message
\* is pending.
C22_PressBeforeBegin ==
    /\ [][(last'.op = "ButtonPress" /\ ~begun)
          => (/\ traffic_light_state' = Red
              /\ pedestrian_light_state' = CrossPending
              /\ scheduled' = <<>>
              /\ pending' = EmptyBag)]_vars
    /\ [][(last'.op = "Begin" /\ presses > 0)
          => (/\ SetButtonLightState(TRUE) = emitted'[1]
              /\ scheduled' = <<InternalMessage(Red, Cross)>>
              /\ pending' = Only(InternalMessage(Red, Cross)))]_vars
    /\ []((begun /\ presses = 1 /\ last.op \in {"Begin", "ButtonPress"})
            => BagCardinality(pending) = 1)

\* C22 witness: the press came first, then Begin.
C22_Witness ==
    /\ begun
    /\ Len(hist) = 2
    /\ Phases(hist) = << <<Red, CrossPending, TRUE>>, <<Red, CrossPending, TRUE>> >>
    /\ hist[1].pending = EmptyBag
    /\ hist[2].pending = Only(InternalMessage(Red, Cross))
    /\ last.op = "Begin"
====
